---- MODULE Spec2Model ----
(***************************************************************************)
(* The benchmark harness of src/unnamed/part_000 (second listing, lines    *)
(* 508-1192): main() runs the read scenarios REPEAT_READS times, then the  *)
(* six write scenarios REPEAT_WRITES times, prints the report and          *)
(* disconnects.  Every client call is an issue step followed by a settle   *)
(* step, so that overlapping calls and detached tasks are visible.         *)
(*                                                                         *)
(* Spec is main() with the default repeat counts and failing calls;        *)
(* SpecRepeats is main() with other repeat counts and no failing call;     *)
(* SpecCleanup calls cleanupCreated in succession; SpecTime is one call of *)
(* time() against a clock.                                                 *)
(***************************************************************************)
EXTENDS Integers, Sequences, FiniteSets, TLC

(* ------------------------------ bounds -------------------------------- *)

\* Number of client calls that a run of main() may see fail for an external
\* reason (network, timeout, constraint).  Failures the store decides itself
\* (row not found, row still referenced) do not count against it.
MaxFaults == 1

\* The same, for the function-level harness of cleanupCreated.
MaxHarnessFaults == 2

\* Number of successive cleanupCreated calls of the function-level harness.
MaxCalls == 2

(* ------------------------------ the store ------------------------------ *)

\* The five tables the write scenario touches.  Every row carries the
\* columns the code reads or writes, plus "by": the uniqueness seed of the
\* invocation that inserted it (0 for rows that were there before the run).
EmptyTables ==
  [ instructors |-> {}, keywords |-> {}, books |-> {},
    instructor_books |-> {}, instructor_keywords |-> {} ]

\* Rows present before the run: one instructor linked to one book and one
\* keyword, inserted by someone else.
InitialStore ==
  [ instructors |-> { [id |-> 1, slug |-> 0, by |-> 0] },
    keywords |-> { [id |-> 1, name |-> <<0, 0>>, by |-> 0] },
    books |-> { [id |-> 1, url |-> <<0, 0>>, by |-> 0] },
    instructor_books |-> { [instructor_id |-> 1, book_id |-> 1, by |-> 0] },
    instructor_keywords |->
      { [instructor_id |-> 1, keyword_id |-> 1, order |-> 0, by |-> 0] } ]

InitialSerial == [ instructors |-> 2, keywords |-> 2, books |-> 2 ]

Merge(a, b) ==
  [ instructors |-> a.instructors \cup b.instructors,
    keywords |-> a.keywords \cup b.keywords,
    books |-> a.books \cup b.books,
    instructor_books |-> a.instructor_books \cup b.instructor_books,
    instructor_keywords |-> a.instructor_keywords \cup b.instructor_keywords ]

\* All rows of a table set that invocation s inserted.
RowsBy(t, s) ==
  [ instructors |-> { r \in t.instructors : r.by = s },
    keywords |-> { r \in t.keywords : r.by = s },
    books |-> { r \in t.books : r.by = s },
    instructor_books |-> { r \in t.instructor_books : r.by = s },
    instructor_keywords |-> { r \in t.instructor_keywords : r.by = s } ]

Ids(rows) == { r.id : r \in rows }

\* The ascending sequence of a finite set of integers.
RECURSIVE Ascending(_)
Ascending(S) ==
  IF S = {} THEN <<>>
  ELSE LET m == CHOOSE x \in S : \A y \in S : x <= y
       IN <<m>> \o Ascending(S \ {m})

\* Every ordering of a finite set, as sequences.
Orderings(S) ==
  { q \in [1..Cardinality(S) -> S] : \A i, j \in 1..Cardinality(S) : i # j => q[i] # q[j] }

Range(q) == { q[i] : i \in 1..Len(q) }

(* ------------------------- configuration ------------------------------- *)

\* The surroundings of a run.  process.env with BENCH_REPEAT and
\* BENCH_WRITE_REPEAT unset: the values `?? 3` and `?? 1` give REPEAT_READS
\* and REPEAT_WRITES.  "failures" is how many client calls the outside world
\* lets fail; "unusable" are the client handles whose connection settings
\* point nowhere, so that every call through them fails.
DefaultEnv ==
  [BENCH_REPEAT |-> 3, BENCH_WRITE_REPEAT |-> 1, failures |-> MaxFaults, unusable |-> {}]

\* BENCH_LIMIT: the row limit of every read scenario.
LIMIT == 2

\* Rows of the two tables that only the read scenarios touch.
PostsRows == 3

PostCommentsRows == 1

Min(a, b) == IF a <= b THEN a ELSE b

(* --------------------------- the programs ------------------------------ *)

\* runPosts, runPostComments, runInstructors: four timed reads each, in the
\* order the code awaits them.
runPosts ==
  << [label |-> "supabase.select posts", via |-> "supabase", table |-> "posts"],
     [label |-> "prisma.accel findMany posts", via |-> "prismaAccel", table |-> "posts"],
     [label |-> "prisma.direct findMany posts", via |-> "prismaDirect", table |-> "posts"],
     [label |-> "drizzle.select posts", via |-> "db", table |-> "posts"] >>

runPostComments ==
  << [label |-> "supabase.post_comments", via |-> "supabase", table |-> "post_comments"],
     [label |-> "prisma.accel post_comments", via |-> "prismaAccel", table |-> "post_comments"],
     [label |-> "prisma.direct post_comments", via |-> "prismaDirect", table |-> "post_comments"],
     [label |-> "drizzle.post_comments", via |-> "db", table |-> "post_comments"] >>

runInstructors ==
  << [label |-> "prisma.accel instructors (app-select)", via |-> "prismaAccel", table |-> "instructors"],
     [label |-> "prisma.direct instructors (app-select)", via |-> "prismaDirect", table |-> "instructors"],
     [label |-> "supabase.instructors (app-select)", via |-> "supabase", table |-> "instructors"],
     [label |-> "drizzle.instructors (flat)", via |-> "db", table |-> "instructors"] >>

\* runInstructors returning the Prisma direct result in the Drizzle slot too.
runInstructorsReturn_Duplicate == <<3, 1, 2, 2>>

\* The order in which runInstructors returns its four results.
runInstructorsReturn == <<3, 1, 2, 4>>

ReadScenarios == <<runPosts, runPostComments, runInstructors>>

\* The steps of each write scenario, in program order.  A step that is a
\* client call is issued and then settles; "voidCleanup" starts
\* cleanupCreated without awaiting it and returns from the timed callback;
\* "timeEnd" is time() taking its end timestamp; "cleanupIfId" is
\* `if (ids.instructorId) await cleanupCreated(...)`, "cleanup" the same
\* without the test.  A program with a "commit" step runs its inserts in one
\* transaction.

\* runCreateInstructorSupabase inserting the instructor_books rows before
\* the instructor row.
runCreateInstructorSupabase_JoinsFirst ==
  <<"kw", "books", "ib", "inst", "ik", "voidCleanup">>

\* The steps of each write scenario, in program order (see above).
runCreateInstructorSupabase ==
  <<"kw", "books", "inst", "ib", "ik", "voidCleanup">>

\* runCreateInstructorPrismaOrm with its statements run on the client
\* instead of inside prisma.$transaction.
runCreateInstructorPrismaOrm_NoTransaction ==
  <<"kw", "books", "find", "inst", "ib", "ik", "timeEnd", "cleanupIfId">>

runCreateInstructorPrismaOrm ==
  <<"kw", "books", "find", "inst", "ib", "ik", "commit", "timeEnd", "cleanupIfId">>

runCreateInstructorPrismaRaw ==
  <<"kw1", "kw2", "b1", "b2", "inst", "ib", "ik", "commit", "cleanupIfId", "timeEnd">>

runCreateInstructorDrizzleTx ==
  <<"kw1", "kw2", "b1", "b2", "inst", "ib", "ik", "commit", "cleanup", "timeEnd">>

\* The step a failure inside the try block jumps to (the finally block), 0
\* when the function has none.
FinallyStep(fn) ==
  IF fn = "raw"
  THEN CHOOSE i \in 1..Len(runCreateInstructorPrismaRaw) :
         runCreateInstructorPrismaRaw[i] \in {"cleanupIfId", "cleanup"}
  ELSE 0

\* The write loop of main(): function, the handle its inserts go through,
\* the handle its cleanup gets, and the label of its result.
WritePaths ==
  << [fn |-> "supabase", via |-> "supabase", cleanupHandle |-> "prismaAccel",
      label |-> "supabase.create instructor (multi-step)"],
     [fn |-> "orm", via |-> "prismaAccel", cleanupHandle |-> "prismaAccel",
      label |-> "prisma.accel create instructor (ORM tx)"],
     [fn |-> "orm", via |-> "prismaDirect", cleanupHandle |-> "prismaDirect",
      label |-> "prisma.direct create instructor (ORM tx)"],
     [fn |-> "raw", via |-> "prismaAccel", cleanupHandle |-> "prismaAccel",
      label |-> "prisma.accel create instructor (RAW tx)"],
     [fn |-> "raw", via |-> "prismaDirect", cleanupHandle |-> "prismaDirect",
      label |-> "prisma.direct create instructor (RAW tx)"],
     [fn |-> "drizzle", via |-> "db", cleanupHandle |-> "undefined",
      label |-> "drizzle.create instructor (tx)"] >>

Program(fn) ==
  CASE fn = "supabase" -> runCreateInstructorSupabase
    [] fn = "orm" -> runCreateInstructorPrismaOrm
    [] fn = "raw" -> runCreateInstructorPrismaRaw
    [] fn = "drizzle" -> runCreateInstructorDrizzleTx

Transactional(fn) == \E i \in 1..Len(Program(fn)) : Program(fn)[i] = "commit"

CallSteps == {"kw", "kw1", "kw2", "books", "b1", "b2", "find", "inst", "ib", "ik", "commit"}

\* cleanupCreated with the books delete outside any try block.
cleanupCreated_BooksUncaught ==
  << [op |-> "instructor_keywords", catch |-> 4],
     [op |-> "instructor_books", catch |-> 4],
     [op |-> "instructors", catch |-> 4],
     [op |-> "keywords", catch |-> 5],
     [op |-> "books", catch |-> 0] >>

\* cleanupCreated with the first three deletes outside any try block.
cleanupCreated_ParentUncaught ==
  << [op |-> "instructor_keywords", catch |-> 0],
     [op |-> "instructor_books", catch |-> 0],
     [op |-> "instructors", catch |-> 0],
     [op |-> "keywords", catch |-> 5],
     [op |-> "books", catch |-> 6] >>

\* cleanupCreated: its five deletes in order.  "catch" is the position the
\* enclosing try block's catch continues at when the delete fails (6 is the
\* return); 0 would mean no enclosing try.
cleanupCreated ==
  << [op |-> "instructor_keywords", catch |-> 4],
     [op |-> "instructor_books", catch |-> 4],
     [op |-> "instructors", catch |-> 4],
     [op |-> "keywords", catch |-> 5],
     [op |-> "books", catch |-> 6] >>

CleanupEnd == Len(cleanupCreated) + 1

NoIds == [instructorId |-> 0, keywordIds |-> {}, bookIds |-> {}]

(* ------------------------------ state ---------------------------------- *)

VARIABLES
  store,      \* the committed rows of the five tables
  serial,     \* next generated id of instructors, keywords, books
  tx,         \* rows inserted by the open transaction, not yet committed
  pc,         \* main(): "reads", "writes", "print", "disconnectAccel",
              \* "disconnectDirect", "returned", "exited"; "harness" in the
              \* function-level specification
  hit,        \* loop counter of the current loop
  idx,        \* scenario within the hit (read function, or write path)
  step,       \* step within the scenario (writes: 0 is not started)
  awaiting,   \* main() has issued the call of this step and waits for it
  loc,        \* locals of the running write scenario
  timing,     \* time() has taken its start timestamp and not yet its end
  batch,      \* results returned but not yet pushed to rows
  rows,       \* the report rows
  printed,    \* console.table(rows) has run
  connected,  \* Prisma handles not yet disconnected
  cleanups,   \* every cleanupCreated call started so far, running or done
  inflight,   \* client calls issued and not yet settled
  faults,     \* client calls that failed for an external reason
  exitCode,   \* -1 while the process runs, then its exit status
  err,        \* what main().catch printed: "none", "scenario", "cleanup", "disconnect"
  nextSeed,   \* uniqueSuffix(): the next fresh seed
  created,    \* history: the CreatedIds of every write scenario that succeeded
  timedDeletes, \* history: cleanups a delete of which was issued while the
              \* timer of their own scenario was running
  snapshots,  \* history: the store, and the failed calls so far, after each
              \* call of the function-level harness
  callLog,    \* history: the client calls main() issued once, those it issued
              \* again, and those that failed
  env,        \* the repeat counts of process.env, and the failures allowed
  now,        \* the monotonic clock process.hrtime() reads, in half seconds
  timer       \* one call of time(label, fn), in the specification of time()

storeVars == <<store, serial, tx>>

mainVars == <<pc, hit, idx, step, awaiting, loc, timing, batch, rows, printed, connected>>

histVars == <<created, timedDeletes, snapshots, callLog>>

timeVars == <<now, timer>>

vars ==
  <<store, serial, tx, pc, hit, idx, step, awaiting, loc, timing, batch, rows,
    printed, connected, cleanups, inflight, faults, exitCode, err, nextSeed,
    created, timedDeletes, snapshots, callLog, env, now, timer>>

REPEAT_READS == env.BENCH_REPEAT

REPEAT_WRITES == env.BENCH_WRITE_REPEAT

NoCalls == [once |-> {}, again |-> {}, failed |-> {}]

\* An fn that resolves with `value` (ok) or rejects with `error`.
NoFn == [ok |-> TRUE, value |-> 0, error |-> "none"]

NoResult == [label |-> "none", ms |-> 0, value |-> 0]

\* The frame of a time() call: where it is, its arguments, its local
\* `start`, how often it has invoked fn, what it returned or threw; and for
\* the record the clock readings at its four steps and the ticks during
\* which fn was suspended.
NoTimer ==
  [ pcT |-> "none", label |-> "none", fn |-> NoFn, start |-> 0, invoked |-> 0,
    result |-> NoResult, thrown |-> "none",
    startAt |-> 0, invokedAt |-> 0, settledAt |-> 0, endAt |-> 0, suspended |-> 0 ]

NoLoc ==
  [ suffix |-> 0, keywordIds |-> <<>>, bookIds |-> <<>>, instructorId |-> 0,
    ids |-> NoIds, pending |-> FALSE, wait |-> 0, handle |-> "none" ]

Init ==
  /\ store = InitialStore
  /\ serial = InitialSerial
  /\ tx = EmptyTables
  /\ pc = "reads"
  /\ hit = 1
  /\ idx = 1
  /\ step = 1
  /\ awaiting = FALSE
  /\ loc = NoLoc
  /\ timing = FALSE
  /\ batch = <<>>
  /\ rows = <<>>
  /\ printed = FALSE
  /\ connected = {"prismaAccel", "prismaDirect"}
  /\ cleanups = <<>>
  /\ inflight = {}
  /\ faults = 0
  /\ exitCode = -1
  /\ err = "none"
  /\ nextSeed = 1
  /\ created = {}
  /\ timedDeletes = {}
  /\ snapshots = <<>>
  /\ callLog = NoCalls
  /\ env = DefaultEnv
  /\ now = 0
  /\ timer = NoTimer

(* --------------------------- main(): reads ----------------------------- *)

Running == exitCode = -1

\* Whether one more call may fail for an external reason.
MayFault == faults < (IF pc = "harness" THEN MaxHarnessFaults ELSE env.failures)

\* main() with the loops in a try whose finally block prints the table.
Abort_ReportAnyway(e) ==
  /\ pc' = "print"
  /\ exitCode' = exitCode
  /\ err' = e
  /\ awaiting' = FALSE

\* A catch around the failed call that lets the caller try it again.
Abort_Retry(e) ==
  /\ pc' = pc
  /\ exitCode' = exitCode
  /\ err' = err
  /\ awaiting' = FALSE

\* main().catch with process.exit(0).
Abort_ExitZero(e) ==
  /\ pc' = "exited"
  /\ exitCode' = 0
  /\ err' = e
  /\ awaiting' = FALSE

\* main().catch: console.error(err); process.exit(1).
Abort(e) ==
  /\ pc' = "exited"
  /\ exitCode' = 1
  /\ err' = e
  /\ awaiting' = FALSE

\* What a read of `table` returns: the rows of the table, up to LIMIT.
RowCount(table) ==
  CASE table = "posts" -> PostsRows
    [] table = "post_comments" -> PostCommentsRows
    [] table = "instructors" -> Cardinality(store.instructors)

\* A read whose query has no limit.
ReadValue_NoLimit(table) == RowCount(table)

ReadValue(table) == Min(LIMIT, RowCount(table))

\* The results of one read function in the order it returns them, labelled
\* with the hit as main() pushes them.
Returned(fnIdx, b) ==
  IF fnIdx = 3 THEN [i \in 1..4 |-> b[runInstructorsReturn[i]]] ELSE b

\* Whether calls through the handle can reach the store at all.
Reachable(via) == via \notin env.unusable

\* The log after main() has issued the calls `keys`.
Issued(keys) ==
  [callLog EXCEPT !.once = @ \cup keys, !.again = @ \cup (keys \cap callLog.once)]

\* The calls of the current step of the running scenario, as the log names
\* them.
ReadKeys == { <<"reads", hit, idx, ReadScenarios[idx][step].label>> }

\* A read that also clears the table it reads.
Select_Deleting(table) ==
  IF table \in DOMAIN store THEN [store EXCEPT ![table] = {}] ELSE store

\* The store after a select / findMany / select statement on a table: the
\* statement returns rows and changes none.
Select(table) == store

\* time(label, fn) around a read: start timestamp, then the call is issued.
ReadIssue ==
  /\ Running /\ pc = "reads" /\ ~awaiting
  /\ awaiting' = TRUE
  /\ timing' = TRUE
  /\ inflight' = inflight \cup {<<"main", ReadScenarios[idx][step].label>>}
  /\ callLog' = Issued(ReadKeys)
  /\ UNCHANGED <<storeVars, pc, hit, idx, step, loc, batch, rows, printed, connected,
                 cleanups, faults, exitCode, err, nextSeed, created, timedDeletes,
                 snapshots>>
  /\ UNCHANGED <<env, timeVars>>

\* The read settles: its row count becomes the value of the result, or the
\* error is thrown out of time(), the read function and main().
ReadSettle ==
  /\ Running /\ pc = "reads" /\ awaiting
  /\ LET r == ReadScenarios[idx][step]
         b == Append(batch, [label |-> r.label, hit |-> hit, value |-> ReadValue(r.table)])
         lastRead == step = Len(ReadScenarios[idx])
         lastFn == idx = Len(ReadScenarios)
     IN /\ inflight' = inflight \ {<<"main", r.label>>}
        /\ timing' = FALSE
        /\ \E ok \in BOOLEAN :
             IF ok
             THEN /\ Reachable(r.via)
                  /\ awaiting' = FALSE
                  /\ batch' = IF lastRead THEN <<>> ELSE b
                  /\ rows' = IF lastRead THEN rows \o Returned(idx, b) ELSE rows
                  /\ step' = IF lastRead
                             THEN (IF lastFn /\ hit = REPEAT_READS THEN 0 ELSE 1)
                             ELSE step + 1
                  /\ idx' = IF lastRead THEN (IF lastFn THEN 1 ELSE idx + 1) ELSE idx
                  /\ hit' = IF lastRead /\ lastFn
                            THEN (IF hit = REPEAT_READS THEN 1 ELSE hit + 1)
                            ELSE hit
                  /\ pc' = IF lastRead /\ lastFn /\ hit = REPEAT_READS
                           THEN (IF REPEAT_WRITES >= 1 THEN "writes" ELSE "print")
                           ELSE pc
                  /\ store' = Select(r.table)
                  /\ UNCHANGED <<faults, exitCode, err, callLog>>
             ELSE /\ MayFault \/ ~Reachable(r.via)
                  /\ faults' = IF Reachable(r.via) THEN faults + 1 ELSE faults
                  /\ callLog' = [callLog EXCEPT !.failed = @ \cup ReadKeys]
                  /\ Abort("scenario")
                  /\ UNCHANGED <<batch, rows, step, idx, hit, store>>
  /\ UNCHANGED <<serial, tx, loc, printed, connected, cleanups, nextSeed, created,
                 timedDeletes, snapshots>>
  /\ UNCHANGED <<env, timeVars>>

(* ---------------------- main(): report and exit ------------------------ *)

\* console.table(rows).
PrintReport ==
  /\ Running /\ pc = "print"
  /\ printed' = TRUE
  /\ pc' = "disconnectAccel"
  /\ UNCHANGED <<storeVars, hit, idx, step, awaiting, loc, timing, batch, rows, connected,
                 cleanups, inflight, faults, exitCode, err, nextSeed, histVars>>
  /\ UNCHANGED <<env, timeVars>>

\* await prismaAccel.$disconnect(); await prismaDirect.$disconnect().
Disconnect ==
  /\ Running /\ pc \in {"disconnectAccel", "disconnectDirect"}
  /\ LET h == IF pc = "disconnectAccel" THEN "prismaAccel" ELSE "prismaDirect"
     IN \E ok \in BOOLEAN :
          IF ok
          THEN /\ connected' = connected \ {h}
               /\ pc' = IF pc = "disconnectAccel" THEN "disconnectDirect" ELSE "returned"
               /\ UNCHANGED <<faults, exitCode, err, awaiting>>
          ELSE /\ MayFault
               /\ faults' = faults + 1
               /\ Abort("disconnect")
               /\ UNCHANGED connected
  /\ UNCHANGED <<storeVars, hit, idx, step, loc, timing, batch, rows, printed,
                 cleanups, inflight, nextSeed, histVars>>
  /\ UNCHANGED <<env, timeVars>>

(* ----------------------- main(): write scenarios ----------------------- *)

Path == WritePaths[idx]

Prog == Program(Path.fn)

InProgram == pc = "writes" /\ step \in 1..Len(Prog)

\* Rows a statement of the running scenario can see: the committed rows and
\* those of its own transaction.
Visible == Merge(store, tx)

KeywordNames(sfx) == {<<1, sfx>>, <<2, sfx>>}

BookUrls(sfx) == {<<1, sfx>>, <<2, sfx>>}

\* The keyword ids the step can hand back to the caller, one sequence per
\* order in which the store may return the rows.
ReturnedKeywordIds(st) ==
  CASE st = "kw" /\ Path.fn = "supabase" ->
         Orderings({serial.keywords, serial.keywords + 1})
    [] st = "find" ->
         Orderings(Ids({r \in Visible.keywords : r.name \in KeywordNames(loc.suffix)}))
    [] OTHER -> {<<>>}

\* The rows an insert step adds.
Inserted(st) ==
  LET sfx == loc.suffix
      k == serial.keywords
      b == serial.books
  IN CASE st = "kw" ->
            [EmptyTables EXCEPT !.keywords =
               { [id |-> k, name |-> <<1, sfx>>, by |-> sfx],
                 [id |-> k + 1, name |-> <<2, sfx>>, by |-> sfx] }]
       [] st = "kw1" ->
            [EmptyTables EXCEPT !.keywords = { [id |-> k, name |-> <<1, sfx>>, by |-> sfx] }]
       [] st = "kw2" ->
            [EmptyTables EXCEPT !.keywords = { [id |-> k, name |-> <<2, sfx>>, by |-> sfx] }]
       [] st = "books" ->
            [EmptyTables EXCEPT !.books =
               { [id |-> b, url |-> <<1, sfx>>, by |-> sfx],
                 [id |-> b + 1, url |-> <<2, sfx>>, by |-> sfx] }]
       [] st = "b1" ->
            [EmptyTables EXCEPT !.books = { [id |-> b, url |-> <<1, sfx>>, by |-> sfx] }]
       [] st = "b2" ->
            [EmptyTables EXCEPT !.books = { [id |-> b, url |-> <<2, sfx>>, by |-> sfx] }]
       [] st = "inst" ->
            [EmptyTables EXCEPT !.instructors =
               { [id |-> serial.instructors, slug |-> sfx, by |-> sfx] }]
       [] st = "ib" ->
            [EmptyTables EXCEPT !.instructor_books =
               { [instructor_id |-> loc.instructorId, book_id |-> loc.bookIds[i], by |-> sfx]
                 : i \in 1..Len(loc.bookIds) }]
       [] st = "ik" ->
            [EmptyTables EXCEPT !.instructor_keywords =
               { [instructor_id |-> loc.instructorId, keyword_id |-> loc.keywordIds[i],
                  order |-> i - 1, by |-> sfx]
                 : i \in 1..Len(loc.keywordIds) }]
       [] OTHER -> EmptyTables

SerialAfter(st) ==
  CASE st = "kw" -> [serial EXCEPT !.keywords = @ + 2]
    [] st \in {"kw1", "kw2"} -> [serial EXCEPT !.keywords = @ + 1]
    [] st = "books" -> [serial EXCEPT !.books = @ + 2]
    [] st \in {"b1", "b2"} -> [serial EXCEPT !.books = @ + 1]
    [] st = "inst" -> [serial EXCEPT !.instructors = @ + 1]
    [] OTHER -> serial

\* The locals with `ids = {...}` assigned right after the instructor insert
\* instead of at the end of the transaction callback.
Captured_IdsEarly(st, kwIds) ==
  CASE st = "kw" /\ Path.fn = "supabase" -> [loc EXCEPT !.keywordIds = kwIds]
    [] st \in {"kw1", "kw2"} -> [loc EXCEPT !.keywordIds = Append(@, serial.keywords)]
    [] st = "books" /\ Path.fn = "supabase" ->
         [loc EXCEPT !.bookIds = <<serial.books, serial.books + 1>>]
    [] st \in {"b1", "b2"} -> [loc EXCEPT !.bookIds = Append(@, serial.books)]
    [] st = "find" ->
         [loc EXCEPT !.keywordIds = kwIds,
                     !.bookIds = Ascending(Ids({r \in Visible.books :
                                                  r.url \in BookUrls(loc.suffix)}))]
    [] st = "inst" /\ Transactional(Path.fn) ->
         [loc EXCEPT !.instructorId = serial.instructors,
                     !.ids = [instructorId |-> serial.instructors,
                              keywordIds |-> Range(loc.keywordIds),
                              bookIds |-> Range(loc.bookIds)]]
    [] st = "inst" -> [loc EXCEPT !.instructorId = serial.instructors]
    [] OTHER -> loc

\* What the scenario captures from the settled step.
Captured(st, kwIds) ==
  CASE st = "kw" /\ Path.fn = "supabase" -> [loc EXCEPT !.keywordIds = kwIds]
    [] st \in {"kw1", "kw2"} -> [loc EXCEPT !.keywordIds = Append(@, serial.keywords)]
    [] st = "books" /\ Path.fn = "supabase" ->
         [loc EXCEPT !.bookIds = <<serial.books, serial.books + 1>>]
    [] st \in {"b1", "b2"} -> [loc EXCEPT !.bookIds = Append(@, serial.books)]
    [] st = "find" ->
         [loc EXCEPT !.keywordIds = kwIds,
                     !.bookIds = Ascending(Ids({r \in Visible.books :
                                                  r.url \in BookUrls(loc.suffix)}))]
    [] st = "inst" -> [loc EXCEPT !.instructorId = serial.instructors]
    [] st = "ik" /\ Transactional(Path.fn) ->
         \* the last statement of the transaction callback: ids = {...}
         [loc EXCEPT !.ids = [instructorId |-> loc.instructorId,
                              keywordIds |-> Range(loc.keywordIds),
                              bookIds |-> Range(loc.bookIds)]]
    [] OTHER -> loc

MainCalls(st) ==
  IF st = "find"
  THEN {<<"main", "find keywords">>, <<"main", "find books">>}
  ELSE {<<"main", st>>}

\* uniqueSuffix() returning the string of the call before it.
uniqueSuffix_Repeated == IF nextSeed > 1 THEN nextSeed - 1 ELSE nextSeed

\* uniqueSuffix(): the time and six random characters, a string no earlier
\* call has returned.
uniqueSuffix == nextSeed

\* Whether the store accepts the insert: keyword names, book urls and
\* instructor slugs are unique.
InsertAllowed(st) ==
  /\ \A r \in Inserted(st).keywords : \A q \in Visible.keywords : q.name # r.name
  /\ \A r \in Inserted(st).books : \A q \in Visible.books : q.url # r.url
  /\ \A r \in Inserted(st).instructors : \A q \in Visible.instructors : q.slug # r.slug

\* uniqueSuffix(), the locals, and time() taking its start timestamp.
WriteStart ==
  /\ Running /\ pc = "writes" /\ step = 0
  /\ loc' = [NoLoc EXCEPT !.suffix = uniqueSuffix]
  /\ nextSeed' = nextSeed + 1
  /\ timing' = TRUE
  /\ step' = 1
  /\ UNCHANGED <<storeVars, pc, hit, idx, awaiting, batch, rows, printed, connected,
                 cleanups, inflight, faults, exitCode, err, histVars>>
  /\ UNCHANGED <<env, timeVars>>

WriteKeys(st) == { <<"writes", hit, idx, c[2]>> : c \in MainCalls(st) }

\* The scenario issues the client call of its current step (Promise.all
\* issues both findMany calls at once).
WriteIssue ==
  /\ Running /\ InProgram /\ Prog[step] \in CallSteps /\ ~awaiting
  /\ awaiting' = TRUE
  /\ inflight' = inflight \cup MainCalls(Prog[step])
  /\ callLog' = Issued(WriteKeys(Prog[step]))
  /\ UNCHANGED <<storeVars, pc, hit, idx, step, loc, timing, batch, rows, printed,
                 connected, cleanups, faults, exitCode, err, nextSeed, created,
                 timedDeletes, snapshots>>
  /\ UNCHANGED <<env, timeVars>>

\* The call settles.  On success its rows go to the transaction (or, without
\* one, to the store) and the scenario moves on; a commit publishes the
\* transaction.  On failure the transaction is rolled back and the error is
\* thrown: into the finally block if there is one, else out of main().
WriteSettle ==
  /\ Running /\ InProgram /\ awaiting
  /\ LET st == Prog[step]
         txn == Transactional(Path.fn)
     IN /\ inflight' = inflight \ MainCalls(st)
        /\ \E ok \in BOOLEAN, kwIds \in ReturnedKeywordIds(st) :
             IF ok
             THEN /\ Reachable(Path.via)
                  /\ InsertAllowed(st)
                  /\ awaiting' = FALSE
                  /\ step' = step + 1
                  /\ serial' = SerialAfter(st)
                  /\ loc' = Captured(st, kwIds)
                  /\ store' = IF st = "commit" THEN Merge(store, tx)
                              ELSE IF txn THEN store
                              ELSE Merge(store, Inserted(st))
                  /\ tx' = IF st = "commit" THEN EmptyTables
                           ELSE IF txn THEN Merge(tx, Inserted(st))
                           ELSE tx
                  /\ created' = IF st = "commit"
                                THEN created \cup {[hit |-> hit, idx |-> idx, ids |-> loc.ids]}
                                ELSE created
                  /\ UNCHANGED <<pc, faults, exitCode, err, callLog>>
             ELSE /\ MayFault \/ ~Reachable(Path.via) \/ ~InsertAllowed(st)
                  /\ faults' = IF Reachable(Path.via) /\ InsertAllowed(st)
                               THEN faults + 1 ELSE faults
                  /\ callLog' = [callLog EXCEPT !.failed = @ \cup WriteKeys(st)]
                  /\ tx' = EmptyTables
                  /\ IF FinallyStep(Path.fn) > step
                     THEN /\ loc' = [loc EXCEPT !.pending = TRUE]
                          /\ step' = FinallyStep(Path.fn)
                          /\ awaiting' = FALSE
                          /\ UNCHANGED <<pc, exitCode, err>>
                     ELSE /\ Abort("scenario")
                          /\ UNCHANGED <<loc, step>>
                  /\ UNCHANGED <<store, serial, created>>
  /\ UNCHANGED <<hit, idx, timing, batch, rows, printed, connected, cleanups, nextSeed,
                 timedDeletes, snapshots>>
  /\ UNCHANGED <<env, timeVars>>

NewCleanup(owner, handle, ids, awaited) ==
  [ owner |-> owner, handle |-> handle, ids |-> ids, awaited |-> awaited,
    at |-> 1, issued |-> FALSE, attempted |-> {}, failed |-> {}, thrown |-> FALSE,
    order |-> <<>> ]

\* The row of a write result with the label as time() returned it, the hit
\* suffix left out.
Result_NoSuffix(value) == [label |-> Path.label, hit |-> 0, value |-> value]

\* The result of the running write scenario with the hit main() suffixes
\* its label with when it pushes the row.
Result(value) == [label |-> Path.label, hit |-> hit, value |-> value]

\* runCreateInstructorSupabase, after its last insert: cleanupCreated is
\* started and not awaited, the callback returns instructorId and time()
\* takes its end timestamp; the first delete leaves after that.
VoidCleanup ==
  /\ Running /\ InProgram /\ Prog[step] = "voidCleanup"
  /\ LET ids == [instructorId |-> loc.instructorId,
                 keywordIds |-> Range(loc.keywordIds),
                 bookIds |-> Range(loc.bookIds)]
     IN /\ cleanups' = Append(cleanups, NewCleanup(<<hit, idx>>, Path.cleanupHandle, ids, FALSE))
        /\ created' = created \cup {[hit |-> hit, idx |-> idx, ids |-> ids]}
        /\ loc' = [loc EXCEPT !.ids = ids]
  /\ timing' = FALSE
  /\ batch' = Append(batch, Result(loc.instructorId))
  /\ step' = step + 1
  /\ UNCHANGED <<storeVars, pc, hit, idx, awaiting, rows, printed, connected, inflight,
                 faults, exitCode, err, nextSeed, timedDeletes, snapshots, callLog>>
  /\ UNCHANGED <<env, timeVars>>

\* time() takes its end timestamp and returns the result.
TimeEnd ==
  /\ Running /\ InProgram /\ Prog[step] = "timeEnd"
  /\ timing' = FALSE
  /\ batch' = Append(batch, Result(IF Path.fn = "orm" THEN loc.ids.instructorId ELSE 1))
  /\ step' = step + 1
  /\ UNCHANGED <<storeVars, pc, hit, idx, awaiting, loc, rows, printed, connected,
                 cleanups, inflight, faults, exitCode, err, nextSeed, histVars>>
  /\ UNCHANGED <<env, timeVars>>

\* `await cleanupCreated(handle, ids)`, behind `if (ids.instructorId)` where
\* the code has the test.  In a finally block entered by a failure, the
\* failure is rethrown when the block is left.
AwaitCleanup ==
  /\ Running /\ InProgram /\ Prog[step] \in {"cleanup", "cleanupIfId"} /\ loc.wait = 0
  /\ IF Prog[step] = "cleanup" \/ loc.ids.instructorId # 0
     THEN /\ cleanups' = Append(cleanups,
                                NewCleanup(<<hit, idx>>, Path.cleanupHandle, loc.ids, TRUE))
          /\ loc' = [loc EXCEPT !.wait = Len(cleanups) + 1]
          /\ UNCHANGED <<pc, step, exitCode, err, awaiting>>
     ELSE /\ UNCHANGED <<cleanups, loc>>
          /\ IF loc.pending
             THEN Abort("scenario") /\ UNCHANGED step
             ELSE step' = step + 1 /\ UNCHANGED <<pc, exitCode, err, awaiting>>
  /\ UNCHANGED <<storeVars, hit, idx, timing, batch, rows, printed, connected, inflight,
                 faults, nextSeed, histVars>>
  /\ UNCHANGED <<env, timeVars>>

CleanupDone(c) == c.at = CleanupEnd /\ ~c.thrown

\* The awaited cleanupCreated call has returned.
CleanupReturn ==
  /\ Running /\ pc = "writes" /\ loc.wait # 0 /\ CleanupDone(cleanups[loc.wait])
  /\ loc' = [loc EXCEPT !.wait = 0]
  /\ IF loc.pending
     THEN Abort("scenario") /\ UNCHANGED step
     ELSE step' = step + 1 /\ UNCHANGED <<pc, exitCode, err, awaiting>>
  /\ UNCHANGED <<storeVars, hit, idx, timing, batch, rows, printed, connected, cleanups,
                 inflight, faults, nextSeed, histVars>>
  /\ UNCHANGED <<env, timeVars>>

\* The write function returns to main(); after the last one of the hit main()
\* pushes the six results and goes round the loop.
ScenarioReturn ==
  /\ Running /\ pc = "writes" /\ step = Len(Prog) + 1
  /\ loc' = NoLoc
  /\ step' = 0
  /\ IF idx < Len(WritePaths)
     THEN /\ idx' = idx + 1
          /\ UNCHANGED <<hit, pc, rows, batch>>
     ELSE /\ idx' = 1
          /\ rows' = rows \o batch
          /\ batch' = <<>>
          /\ hit' = IF hit < REPEAT_WRITES THEN hit + 1 ELSE hit
          /\ pc' = IF hit < REPEAT_WRITES THEN "writes" ELSE "print"
  /\ UNCHANGED <<storeVars, awaiting, timing, printed, connected, cleanups, inflight,
                 faults, exitCode, err, nextSeed, histVars>>
  /\ UNCHANGED <<env, timeVars>>

(* --------------------------- cleanupCreated ---------------------------- *)

\* cleanupCreated with join-table deletes that have no where clause.
Matching_NoWhere(op, ids) ==
  CASE op = "instructor_keywords" -> store.instructor_keywords
    [] op = "instructor_books" -> store.instructor_books
    [] op = "instructors" -> { r \in store.instructors : r.id = ids.instructorId }
    [] op = "keywords" -> { r \in store.keywords : r.id \in ids.keywordIds }
    [] op = "books" -> { r \in store.books : r.id \in ids.bookIds }

\* The rows a delete of cleanupCreated addresses.
Matching(op, ids) ==
  CASE op = "instructor_keywords" ->
         { r \in store.instructor_keywords : r.instructor_id = ids.instructorId }
    [] op = "instructor_books" ->
         { r \in store.instructor_books : r.instructor_id = ids.instructorId }
    [] op = "instructors" -> { r \in store.instructors : r.id = ids.instructorId }
    [] op = "keywords" -> { r \in store.keywords : r.id \in ids.keywordIds }
    [] op = "books" -> { r \in store.books : r.id \in ids.bookIds }

\* Whether the store accepts the delete: instructors.delete needs its row to
\* exist, and no row is deleted while a join row still references it.
DeleteAllowed(op, ids) ==
  CASE op = "instructors" ->
         /\ Matching(op, ids) # {}
         /\ \A r \in store.instructor_keywords : r.instructor_id # ids.instructorId
         /\ \A r \in store.instructor_books : r.instructor_id # ids.instructorId
    [] op = "keywords" ->
         \A r \in store.instructor_keywords : r.keyword_id \notin ids.keywordIds
    [] op = "books" ->
         \A r \in store.instructor_books : r.book_id \notin ids.bookIds
    [] OTHER -> TRUE

StoreWithout(op, ids) ==
  CASE op = "instructor_keywords" ->
         [store EXCEPT !.instructor_keywords = @ \ Matching(op, ids)]
    [] op = "instructor_books" ->
         [store EXCEPT !.instructor_books = @ \ Matching(op, ids)]
    [] op = "instructors" -> [store EXCEPT !.instructors = @ \ Matching(op, ids)]
    [] op = "keywords" -> [store EXCEPT !.keywords = @ \ Matching(op, ids)]
    [] op = "books" -> [store EXCEPT !.books = @ \ Matching(op, ids)]

\* `if (keywordIds.length)` and `if (bookIds.length)`.
LengthTest(op, ids) ==
  CASE op = "keywords" -> ids.keywordIds # {}
    [] op = "books" -> ids.bookIds # {}
    [] OTHER -> TRUE

Usable(handle) == handle \in {"prismaAccel", "prismaDirect"}

Active(i) ==
  /\ Running
  /\ i \in 1..Len(cleanups)
  /\ cleanups[i].at < CleanupEnd
  /\ ~cleanups[i].thrown

\* The delete at position c.at has failed: control continues at the catch of
\* the enclosing try, or the error leaves cleanupCreated.
Failed(c) ==
  LET d == cleanupCreated[c.at]
  IN IF d.catch = 0
     THEN [c EXCEPT !.thrown = TRUE, !.issued = FALSE, !.failed = @ \cup {d.op}]
     ELSE [c EXCEPT !.at = d.catch, !.issued = FALSE, !.failed = @ \cup {d.op}]

\* An error that leaves cleanupCreated reaches main().catch through the
\* awaiting scenario, or ends the process as an unhandled rejection.
Escapes(c) ==
  IF c.thrown /\ pc # "harness"
  THEN Abort("cleanup")
  ELSE UNCHANGED <<pc, exitCode, err, awaiting>>

\* cleanupCreated issues the delete it has reached.
CleanupIssue(i) ==
  /\ Active(i)
  /\ LET c == cleanups[i]
         d == cleanupCreated[c.at]
     IN /\ ~c.issued /\ Usable(c.handle) /\ LengthTest(d.op, c.ids)
        /\ cleanups' = [cleanups EXCEPT ![i] =
                          [c EXCEPT !.issued = TRUE, !.attempted = @ \cup {d.op},
                                    !.order = Append(@, d.op)]]
        /\ inflight' = inflight \cup {<<"cleanup", i>>}
        /\ timedDeletes' = IF timing /\ pc = "writes" /\ c.owner = <<hit, idx>>
                           THEN timedDeletes \cup {c.owner}
                           ELSE timedDeletes
  /\ UNCHANGED <<storeVars, mainVars, faults, exitCode, err, nextSeed, created, snapshots,
                 callLog>>
  /\ UNCHANGED <<env, timeVars>>

\* A step of cleanupCreated that issues nothing: the length test is false
\* and the delete is skipped, or the handle is not a client and the property
\* access throws inside the try block.
CleanupLocal(i) ==
  /\ Active(i)
  /\ LET c == cleanups[i]
         d == cleanupCreated[c.at]
         c2 == IF ~LengthTest(d.op, c.ids) THEN [c EXCEPT !.at = @ + 1] ELSE Failed(c)
     IN /\ ~c.issued
        /\ ~LengthTest(d.op, c.ids) \/ ~Usable(c.handle)
        /\ cleanups' = [cleanups EXCEPT ![i] = c2]
        /\ Escapes(c2)
  /\ UNCHANGED <<storeVars, hit, idx, step, loc, timing, batch, rows, printed, connected,
                 inflight, faults, nextSeed, histVars>>
  /\ UNCHANGED <<env, timeVars>>

\* The delete settles: the rows are gone, or it failed (refused by the
\* store, or for an external reason).
CleanupSettle(i) ==
  /\ Active(i)
  /\ LET c == cleanups[i]
         d == cleanupCreated[c.at]
     IN /\ c.issued
        /\ inflight' = inflight \ {<<"cleanup", i>>}
        /\ \E ok \in BOOLEAN :
             IF ok
             THEN /\ DeleteAllowed(d.op, c.ids)
                  /\ Reachable(c.handle)
                  /\ store' = StoreWithout(d.op, c.ids)
                  /\ cleanups' = [cleanups EXCEPT ![i] =
                                    [c EXCEPT !.at = @ + 1, !.issued = FALSE]]
                  /\ UNCHANGED <<faults, pc, exitCode, err, awaiting>>
             ELSE /\ ~DeleteAllowed(d.op, c.ids) \/ ~Reachable(c.handle) \/ MayFault
                  /\ faults' = IF DeleteAllowed(d.op, c.ids) /\ Reachable(c.handle)
                               THEN faults + 1 ELSE faults
                  /\ cleanups' = [cleanups EXCEPT ![i] = Failed(c)]
                  /\ Escapes(Failed(c))
                  /\ UNCHANGED store
  /\ UNCHANGED <<serial, tx, hit, idx, step, loc, timing, batch, rows, printed, connected,
                 nextSeed, histVars>>
  /\ UNCHANGED <<env, timeVars>>

(* ------------------------------ process -------------------------------- *)

AllCleanupsDone == \A i \in 1..Len(cleanups) : CleanupDone(cleanups[i])

\* main() has returned; the process ends with status 0 once nothing is
\* pending on the event loop.
ProcessExit ==
  /\ Running /\ pc = "returned"
  /\ AllCleanupsDone /\ inflight = {}
  /\ pc' = "exited"
  /\ exitCode' = 0
  /\ UNCHANGED <<storeVars, hit, idx, step, awaiting, loc, timing, batch, rows, printed,
                 connected, cleanups, inflight, faults, err, nextSeed, histVars>>
  /\ UNCHANGED <<env, timeVars>>

Next ==
  \/ ReadIssue
  \/ ReadSettle
  \/ WriteStart
  \/ WriteIssue
  \/ WriteSettle
  \/ VoidCleanup
  \/ TimeEnd
  \/ AwaitCleanup
  \/ CleanupReturn
  \/ ScenarioReturn
  \/ \E i \in 1..Len(cleanups) : CleanupIssue(i)
  \/ \E i \in 1..Len(cleanups) : CleanupLocal(i)
  \/ \E i \in 1..Len(cleanups) : CleanupSettle(i)
  \/ PrintReport
  \/ Disconnect
  \/ ProcessExit

Spec == Init /\ [][Next]_vars

(* ------------------ cleanupCreated called in succession ---------------- *)

\* The store after the first k insert steps of a write scenario with seed 1
\* that has no transaction: every state a failed scenario can leave behind.
GraphPrefix(k) ==
  [ instructors |-> IF k >= 3 THEN { [id |-> 2, slug |-> 1, by |-> 1] } ELSE {},
    keywords |-> IF k >= 1
                 THEN { [id |-> 2, name |-> <<1, 1>>, by |-> 1],
                        [id |-> 3, name |-> <<2, 1>>, by |-> 1] }
                 ELSE {},
    books |-> IF k >= 2
              THEN { [id |-> 2, url |-> <<1, 1>>, by |-> 1],
                     [id |-> 3, url |-> <<2, 1>>, by |-> 1] }
              ELSE {},
    instructor_books |-> IF k >= 4
                         THEN { [instructor_id |-> 2, book_id |-> 2, by |-> 1],
                                [instructor_id |-> 2, book_id |-> 3, by |-> 1] }
                         ELSE {},
    instructor_keywords |-> IF k >= 5
                            THEN { [instructor_id |-> 2, keyword_id |-> 2, order |-> 0, by |-> 1],
                                   [instructor_id |-> 2, keyword_id |-> 3, order |-> 1, by |-> 1] }
                            ELSE {} ]

HarnessStores == { Merge(InitialStore, GraphPrefix(k)) : k \in 0..5 }

\* CreatedIds values: the ids of the graph, none, the parent alone, and a
\* list that also names a keyword another instructor uses.
HarnessIds ==
  { [instructorId |-> 2, keywordIds |-> {2, 3}, bookIds |-> {2, 3}],
    NoIds,
    [instructorId |-> 2, keywordIds |-> {}, bookIds |-> {}],
    [instructorId |-> 2, keywordIds |-> {1, 2, 3}, bookIds |-> {2, 3}] }

InitCleanup ==
  /\ store \in HarnessStores
  /\ serial = [ instructors |-> 3, keywords |-> 4, books |-> 4 ]
  /\ tx = EmptyTables
  /\ pc = "harness"
  /\ hit = 1
  /\ idx = 1
  /\ step = 0
  /\ awaiting = FALSE
  /\ \E ids \in HarnessIds, h \in {"prismaDirect", "undefined"} :
       loc = [NoLoc EXCEPT !.ids = ids, !.handle = h]
  /\ timing = FALSE
  /\ batch = <<>>
  /\ rows = <<>>
  /\ printed = FALSE
  /\ connected = {"prismaDirect"}
  /\ cleanups = <<>>
  /\ inflight = {}
  /\ faults = 0
  /\ exitCode = -1
  /\ err = "none"
  /\ nextSeed = 2
  /\ created = {}
  /\ timedDeletes = {}
  /\ snapshots = <<>>
  /\ callLog = NoCalls
  /\ env = DefaultEnv
  /\ now = 0
  /\ timer = NoTimer

\* await cleanupCreated(handle, ids), once the previous call has returned.
HarnessCall ==
  /\ pc = "harness"
  /\ Len(cleanups) < MaxCalls
  /\ Len(snapshots) = Len(cleanups)
  /\ cleanups' = Append(cleanups, NewCleanup(<<0, Len(cleanups) + 1>>, loc.handle, loc.ids, TRUE))
  /\ UNCHANGED <<storeVars, mainVars, inflight, faults, exitCode, err, nextSeed, histVars>>
  /\ UNCHANGED <<env, timeVars>>

\* The call has returned; the store it leaves is recorded.
HarnessReturn ==
  /\ pc = "harness"
  /\ Len(snapshots) < Len(cleanups)
  /\ CleanupDone(cleanups[Len(cleanups)])
  /\ snapshots' = Append(snapshots, [store |-> store, faults |-> faults])
  /\ UNCHANGED <<storeVars, mainVars, cleanups, inflight, faults, exitCode, err, nextSeed,
                 created, timedDeletes, callLog>>
  /\ UNCHANGED <<env, timeVars>>

NextCleanup ==
  \/ HarnessCall
  \/ HarnessReturn
  \/ \E i \in 1..Len(cleanups) : CleanupIssue(i)
  \/ \E i \in 1..Len(cleanups) : CleanupLocal(i)
  \/ \E i \in 1..Len(cleanups) : CleanupSettle(i)

SpecCleanup == InitCleanup /\ [][NextCleanup]_vars

(* ----------------------- main() with other counts ---------------------- *)

\* The largest BENCH_REPEAT a run is started with.
MaxRepeat == 2

\* The values of BENCH_WRITE_REPEAT a run is started with.
WriteRepeats == {0, 1, 2}

\* main() started with any repeat counts, in surroundings where no call
\* fails: a loop whose count is 0 is skipped, `hit <= REPEAT_READS` being
\* false at once.
InitRepeats ==
  /\ env \in [BENCH_REPEAT : 0..MaxRepeat, BENCH_WRITE_REPEAT : WriteRepeats,
               failures : {0}, unusable : {{}}]
  /\ store = InitialStore
  /\ serial = InitialSerial
  /\ tx = EmptyTables
  /\ pc = IF REPEAT_READS >= 1 THEN "reads"
          ELSE IF REPEAT_WRITES >= 1 THEN "writes" ELSE "print"
  /\ hit = 1
  /\ idx = 1
  /\ step = IF REPEAT_READS >= 1 THEN 1 ELSE 0
  /\ awaiting = FALSE
  /\ loc = NoLoc
  /\ timing = FALSE
  /\ batch = <<>>
  /\ rows = <<>>
  /\ printed = FALSE
  /\ connected = {"prismaAccel", "prismaDirect"}
  /\ cleanups = <<>>
  /\ inflight = {}
  /\ faults = 0
  /\ exitCode = -1
  /\ err = "none"
  /\ nextSeed = 1
  /\ created = {}
  /\ timedDeletes = {}
  /\ snapshots = <<>>
  /\ callLog = NoCalls
  /\ now = 0
  /\ timer = NoTimer

SpecRepeats == InitRepeats /\ [][Next]_vars

(* ------------------- main() with unusable connections ------------------ *)

\* The client handles of a run: createClient, the two Prisma clients, and
\* the Drizzle handle of src/src/drizzle.ts.  None of them is connected or
\* probed when it is constructed; the first call through it is.
Handles == {"supabase", "prismaAccel", "prismaDirect", "db"}

\* main() started once round each loop with any set of handles whose
\* connection settings are unusable, and no other failure.
InitStartup ==
  /\ env \in [BENCH_REPEAT : {1}, BENCH_WRITE_REPEAT : {1}, failures : {0},
              unusable : SUBSET Handles]
  /\ store = InitialStore
  /\ serial = InitialSerial
  /\ tx = EmptyTables
  /\ pc = "reads"
  /\ hit = 1
  /\ idx = 1
  /\ step = 1
  /\ awaiting = FALSE
  /\ loc = NoLoc
  /\ timing = FALSE
  /\ batch = <<>>
  /\ rows = <<>>
  /\ printed = FALSE
  /\ connected = {"prismaAccel", "prismaDirect"}
  /\ cleanups = <<>>
  /\ inflight = {}
  /\ faults = 0
  /\ exitCode = -1
  /\ err = "none"
  /\ nextSeed = 1
  /\ created = {}
  /\ timedDeletes = {}
  /\ snapshots = <<>>
  /\ callLog = NoCalls
  /\ now = 0
  /\ timer = NoTimer

SpecStartup == InitStartup /\ [][Next]_vars

(* ------------------------------- time() -------------------------------- *)
(* time(label, fn) and hrtimeMs() (lines 524-537) on their own: one call   *)
(* of time() with an fn that stays suspended for any number of clock ticks *)
(* and then resolves or rejects.                                           *)

\* The last clock reading of a behaviour, in half seconds.
MaxClock == 3

\* process.hrtime(): [seconds, nanoseconds] of the monotonic clock.
hrtime == <<now \div 2, (now % 2) * 500000000>>

\* hrtimeMs() without the seconds.
hrtimeMs_NanosOnly == hrtime[2] \div 1000000

\* hrtimeMs(): sec * 1000 + ns / 1e6.
hrtimeMs == hrtime[1] * 1000 + hrtime[2] \div 1000000

TimeLabels == {"supabase.select posts", "prisma.direct create instructor (ORM tx)"}

\* The operations time() is called with: they resolve with a row count or
\* an id, or reject with an error.
TimedFns ==
  { [ok |-> TRUE, value |-> v, error |-> "none"] : v \in {0, 2} }
    \cup { [ok |-> FALSE, value |-> 0, error |-> e] : e \in {"PostgrestError", "P2002"} }

InitTime ==
  /\ store = InitialStore
  /\ serial = InitialSerial
  /\ tx = EmptyTables
  /\ pc = "time"
  /\ hit = 1
  /\ idx = 1
  /\ step = 0
  /\ awaiting = FALSE
  /\ loc = NoLoc
  /\ timing = FALSE
  /\ batch = <<>>
  /\ rows = <<>>
  /\ printed = FALSE
  /\ connected = {}
  /\ cleanups = <<>>
  /\ inflight = {}
  /\ faults = 0
  /\ exitCode = -1
  /\ err = "none"
  /\ nextSeed = 1
  /\ created = {}
  /\ timedDeletes = {}
  /\ snapshots = <<>>
  /\ callLog = NoCalls
  /\ env = DefaultEnv
  /\ now = 0
  /\ \E l \in TimeLabels, f \in TimedFns :
       timer = [NoTimer EXCEPT !.pcT = "called", !.label = l, !.fn = f]

notTimeVars ==
  <<store, serial, tx, pc, hit, idx, step, awaiting, loc, timing, batch, rows,
    printed, connected, cleanups, inflight, faults, exitCode, err, nextSeed,
    created, timedDeletes, snapshots, callLog, env>>

\* The clock advances; fn is suspended while time() awaits it.
Tick ==
  /\ pc = "time"
  /\ now < MaxClock
  /\ now' = now + 1
  /\ timer' = IF timer.pcT = "awaiting"
              THEN [timer EXCEPT !.suspended = @ + 1]
              ELSE timer
  /\ UNCHANGED notTimeVars

\* const start = hrtimeMs();
TimeStart ==
  /\ pc = "time" /\ timer.pcT = "called"
  /\ timer' = [timer EXCEPT !.pcT = "started", !.start = hrtimeMs, !.startAt = now]
  /\ UNCHANGED <<notTimeVars, now>>

\* fn() is invoked and time() awaits the promise.
TimeInvoke ==
  /\ pc = "time" /\ timer.pcT = "started"
  /\ timer' = [timer EXCEPT !.pcT = "awaiting", !.invoked = @ + 1, !.invokedAt = now]
  /\ UNCHANGED <<notTimeVars, now>>

\* The promise of fn settles.
FnSettle ==
  /\ pc = "time" /\ timer.pcT = "awaiting"
  /\ timer' = [timer EXCEPT !.pcT = IF timer.fn.ok THEN "resolved" ELSE "rejected",
                            !.settledAt = now]
  /\ UNCHANGED <<notTimeVars, now>>

\* const ms = hrtimeMs() - start; return { label, ms, value };
TimeReturn ==
  /\ pc = "time" /\ timer.pcT = "resolved"
  /\ timer' = [timer EXCEPT !.pcT = "returned",
                            !.result = [label |-> timer.label,
                                        ms |-> hrtimeMs - timer.start,
                                        value |-> timer.fn.value],
                            !.endAt = now]
  /\ UNCHANGED <<notTimeVars, now>>

\* time() with a catch that throws an error of its own.
time_OnReject_Wrapped(t) == [t EXCEPT !.pcT = "threw", !.thrown = "timing failed"]

\* `await fn()` is in no try block: the rejection of fn leaves time() as it
\* is, and the two statements after the await are not reached.
time_OnReject(t) == [t EXCEPT !.pcT = "threw", !.thrown = t.fn.error]

TimeThrow ==
  /\ pc = "time" /\ timer.pcT = "rejected"
  /\ timer' = time_OnReject(timer)
  /\ UNCHANGED <<notTimeVars, now>>

NextTime ==
  \/ Tick
  \/ TimeStart
  \/ TimeInvoke
  \/ FnSettle
  \/ TimeReturn
  \/ TimeThrow

SpecTime == InitTime /\ [][NextTime]_vars

(* ------------------------------ claims --------------------------------- *)

AllDeletes == { cleanupCreated[k].op : k \in 1..Len(cleanupCreated) }

\* The uniqueness seed of the write scenario that owns a cleanup.
SeedOf(owner) == (owner[1] - 1) * Len(WritePaths) + owner[2]

TxFunctions == {"orm", "raw", "drizzle"}

\* C1: cleanupCreated never throws.  Whatever deletes fail, and also when the
\* handle is no client at all, no cleanupCreated call ends by raising, and
\* the process never ends with a cleanup failure: a non-zero exit status
\* always stems from a scenario or a disconnect.
C1_CleanupNeverThrows ==
  /\ \A i \in 1..Len(cleanups) : ~cleanups[i].thrown
  /\ err # "cleanup"
  /\ exitCode = 1 => err \in {"scenario", "disconnect"}

\* A cleanup on a usable handle in which every try block caught a failure
\* has returned, and the run went on to end with status 0.
C1_Witness ==
  /\ exitCode = 0
  /\ \E i \in 1..Len(cleanups) :
       /\ Usable(cleanups[i].handle)
       /\ CleanupDone(cleanups[i])
       /\ cleanups[i].failed = {"instructor_keywords", "keywords", "books"}

\* C2: every delete group of cleanupCreated has its own failure boundary, so
\* a cleanup that has returned has attempted all of its deletes whichever of
\* them failed; in particular a failed instructor_keywords delete is still
\* followed by the instructor_books delete and the parent delete.
C2_EveryGroupAttempted ==
  \A i \in 1..Len(cleanups) :
    LET c == cleanups[i]
    IN (CleanupDone(c) /\ Usable(c.handle) /\ c.ids.keywordIds # {} /\ c.ids.bookIds # {})
         => c.attempted = AllDeletes

\* C3: for every client path, once the cleanup of a write scenario has
\* returned with none of its deletes having failed, the store holds no row
\* of that invocation and the rows that were there before are untouched.
C3_WriteThenCleanupRestores ==
  \A i \in 1..Len(cleanups) :
    LET c == cleanups[i]
    IN (CleanupDone(c) /\ c.attempted \cap c.failed = {})
         => /\ RowsBy(store, SeedOf(c.owner)) = EmptyTables
            /\ RowsBy(store, 0) = InitialStore

\* C4: when the process has exited, the CreatedIds of every write scenario
\* that succeeded have been passed to cleanupCreated on a usable handle.
C4_EveryCreatedIsCleaned ==
  exitCode # -1 =>
    \A g \in created :
      \E i \in 1..Len(cleanups) :
        /\ cleanups[i].owner = <<g.hit, g.idx>>
        /\ cleanups[i].ids = g.ids
        /\ Usable(cleanups[i].handle)

\* C5: every cleanup a write scenario started has finished all of its
\* delete attempts by the time the report is printed and by the time the
\* process exits.
C5_CleanupsFinishedBeforeExit ==
  (printed \/ exitCode # -1) => AllCleanupsDone

\* C6: no delete of cleanupCreated is issued while the timer of the write
\* scenario it cleans up after is still running.
C6_CleanupOutsideTiming == timedDeletes = {}

\* C7: at most one client call is in flight at any time, and no cleanup of
\* an earlier write scenario is still running while a later one is timed.
C7_OneCallAtATime ==
  /\ Cardinality(inflight) <= 1
  /\ (timing /\ pc = "writes") =>
       \A i \in 1..Len(cleanups) :
         cleanups[i].owner # <<hit, idx>> => CleanupDone(cleanups[i])

\* C8: when a step of a write scenario on a transactional path (ORM query
\* builder, ORM raw SQL, Drizzle) has failed, the store holds none of that
\* invocation's rows, the scenario yields no result, and once the process
\* has exited it has done so with the scenario's failure.
C8_NoPartialGraph ==
  (loc.suffix # 0 /\ Path.fn \in TxFunctions /\ (loc.pending \/ exitCode = 1))
    => /\ RowsBy(store, loc.suffix) = EmptyTables
       /\ \A k \in 1..Len(batch) : batch[k].label # Path.label
       /\ exitCode # 0
       /\ exitCode = 1 => err = "scenario"

\* A transactional scenario failed after its parent row had been inserted in
\* the transaction, and the process has exited.
C8_Witness ==
  /\ exitCode = 1
  /\ loc.suffix # 0
  /\ Path.fn \in TxFunctions
  /\ loc.instructorId # 0
  /\ serial.instructors > InitialSerial.instructors

\* C9: when an insert step after the first fails on the REST-style path, the
\* run ends with that failure and cleanupCreated has been invoked for the
\* rows the earlier steps inserted.
C9_PartialGraphReclaimed ==
  (exitCode = 1 /\ loc.suffix # 0 /\ Path.fn = "supabase" /\ step \in 2..5)
    => /\ err = "scenario"
       /\ \E i \in 1..Len(cleanups) : cleanups[i].owner = <<hit, idx>>

\* C10 as stated: cleanupCreated called twice in succession with the same
\* CreatedIds never raises, and the store after the second call equals the
\* store after the first.
C10_SecondCallChangesNothing ==
  /\ \A i \in 1..Len(cleanups) : ~cleanups[i].thrown
  /\ Len(snapshots) >= 2 => snapshots[2].store = snapshots[1].store

\* C10 amended: cleanupCreated called twice in succession with the same
\* CreatedIds never raises, and the second call changes nothing provided no
\* delete of the first call failed for an external reason.
C10_Idempotent ==
  /\ \A i \in 1..Len(cleanups) : ~cleanups[i].thrown
  /\ (Len(snapshots) >= 2 /\ snapshots[1].faults = 0)
       => snapshots[2].store = snapshots[1].store

\* The first call removed the whole graph without a failure; the second
\* call attempted every delete again, its parent delete found no row, and it
\* returned.
C10_Witness ==
  /\ Len(snapshots) >= 2
  /\ snapshots[1].faults = 0
  /\ cleanups[1].failed = {}
  /\ cleanups[1].attempted = AllDeletes
  /\ RowsBy(snapshots[1].store, 1) = EmptyTables
  /\ cleanups[2].attempted = AllDeletes
  /\ "instructors" \in cleanups[2].failed

JoinDeletes == {"instructor_keywords", "instructor_books"}

\* The place of a delete in the foreign-key order: join rows, parent row,
\* keyword rows, book rows.
FkRank(op) ==
  CASE op \in JoinDeletes -> 1
    [] op = "instructors" -> 2
    [] op = "keywords" -> 3
    [] op = "books" -> 4

\* The deletes a cleanupCreated call has issued so far are in this order.
InFkOrder(c) ==
  \A j, k \in 1..Len(c.order) : j < k => FkRank(c.order[j]) <= FkRank(c.order[k])

\* C11: cleanupCreated issues its deletes in foreign-key order, the join
\* rows of both join tables, then the parent row, then the keyword rows, then
\* the book rows, and no parent, keyword or book delete is issued before the
\* deletes of both join tables have been issued.
C11_JoinsBeforeTheRest ==
  \A i \in 1..Len(cleanups) :
    LET c == cleanups[i]
    IN /\ InFkOrder(c)
       /\ \A j \in 1..Len(c.order) :
            c.order[j] \notin JoinDeletes
              => JoinDeletes \subseteq { c.order[k] : k \in 1..(j - 1) }

\* The results time() has returned to the write scenarios, pushed to the
\* report or not yet.
WriteResults ==
  { r \in Range(rows) \cup Range(batch) :
      \E j \in 1..Len(WritePaths) : r.label = WritePaths[j].label }

\* C12: on every client path the value a successful write scenario reports
\* is the id of the parent row that this invocation inserted, the row that
\* carries the invocation's seed in its slug.
C12_ValueIsParentId ==
  \A r \in WriteResults :
    \A j \in 1..Len(WritePaths) :
      r.label = WritePaths[j].label
        => \E g \in created :
             /\ g.hit = r.hit /\ g.idx = j
             /\ r.value = g.ids.instructorId
             /\ \A row \in store.instructors :
                  row.id = r.value => row.slug = SeedOf(<<r.hit, j>>)

\* C13: when the operation passed to time() fails, time() fails with the
\* same failure, unmodified, and produces no TimedResult; the operation is
\* not invoked a second time.
C13_FailurePropagates ==
  ~timer.fn.ok
    => /\ timer.result = NoResult
       /\ timer.invoked <= 1
       /\ timer.pcT \notin {"resolved", "returned"}
       /\ timer.pcT = "threw" => timer.thrown = timer.fn.error /\ timer.invoked = 1

\* time() has thrown the error its operation rejected with.
C13_Witness ==
  /\ timer.pcT = "threw"
  /\ timer.fn.error = "P2002"
  /\ timer.thrown = "P2002"
  /\ timer.suspended >= 1

\* C14: time(L, op) invokes op exactly once and returns {label: L, ms: end -
\* start, value: v} where v is what op resolved with; start is read before
\* op is invoked and end after it settles, so ms is non-negative and at
\* least the time op was suspended.  A tick of the clock is 500 ms.
C14_TimedResult ==
  /\ timer.invoked <= 1
  /\ timer.pcT \in {"awaiting", "resolved", "rejected", "returned", "threw"}
       => timer.invoked = 1 /\ timer.startAt <= timer.invokedAt
  /\ timer.pcT = "returned"
       => /\ timer.result.label = timer.label
          /\ timer.result.value = timer.fn.value
          /\ timer.settledAt <= timer.endAt
          /\ timer.result.ms = (timer.endAt - timer.startAt) * 500
          /\ timer.result.ms >= 0
          /\ timer.result.ms >= timer.suspended * 500

\* time() has returned a result whose ms spans a change of the seconds field
\* of the clock and is more than the time the operation was suspended.
C14_Witness ==
  /\ timer.pcT = "returned"
  /\ timer.startAt = 1
  /\ timer.endAt = 3
  /\ timer.suspended = 1
  /\ timer.result = [label |-> "supabase.select posts", ms |-> 1000, value |-> 2]

\* The timed reads of one pass of the read loop.
ReadsPerHit == Len(runPosts) + Len(runPostComments) + Len(runInstructors)

\* main() has pushed a row for every timed scenario of both loops, which it
\* does when every scenario function has returned.
AllScenariosSucceeded ==
  Len(rows) = ReadsPerHit * REPEAT_READS + Len(WritePaths) * REPEAT_WRITES

\* A scenario of the run has failed: the failure has reached main().catch,
\* or it waits in the finally block of the RAW scenario to be rethrown.
ScenarioFailed == err = "scenario" \/ loc.pending

\* C15: a failed run produces no report.  Once a scenario, read or write,
\* in any repeat, has failed, the report table has not been written and is
\* never written, not even with the rows already collected.
C15_NoReportAfterFailure == ScenarioFailed => ~printed

\* A write scenario failed after the rows of every read scenario had been
\* collected; the run ended without the table.
C15_Witness ==
  /\ err = "scenario"
  /\ exitCode = 1
  /\ Len(rows) = ReadsPerHit * REPEAT_READS
  /\ batch # <<>>
  /\ ~printed

\* C16 as stated: the process exits with status 0 exactly when every
\* scenario succeeded, and a scenario failure is printed to the error stream
\* before the process exits with a non-zero status.
C16_ExitZeroIffScenariosSucceeded ==
  exitCode # -1
    => /\ exitCode = 0 <=> AllScenariosSucceeded
       /\ ~AllScenariosSucceeded => (exitCode = 1 /\ err = "scenario")

\* C16 amended: the process exits with status 0 exactly when every scenario
\* and both $disconnect calls succeeded; any failure that reaches
\* main().catch, of a scenario or of a disconnect, has been printed to the
\* error stream when the process exits, and the status is then non-zero.
C16_ExitStatus ==
  exitCode # -1
    => /\ exitCode = 0 <=> (AllScenariosSucceeded /\ connected = {})
       /\ exitCode = 0 <=> err = "none"
       /\ ~AllScenariosSucceeded => (exitCode = 1 /\ err = "scenario")
       /\ (AllScenariosSucceeded /\ connected # {}) => (exitCode = 1 /\ err = "disconnect")

\* Every scenario succeeded and the report was printed, then a $disconnect
\* rejected: the failure was printed and the status is 1.
C16_Witness ==
  /\ exitCode = 1
  /\ err = "disconnect"
  /\ AllScenariosSucceeded
  /\ printed

\* The long-lived client handles main() constructs and has to close: the
\* two Prisma clients.  (The postgres client of the Drizzle module is opened
\* with idle_timeout and drops its connection by itself.)
Opened == {"prismaAccel", "prismaDirect"}

\* The handles closed so far: $disconnect is the only close the run performs.
Closed == Opened \ connected

\* C17: every long-lived client handle the run opened has been closed when
\* the process ends, on every exit path, also when a scenario failed.
C17_HandlesClosedAtExit == exitCode # -1 => Opened \subseteq Closed

ReadLabels ==
  UNION { { ReadScenarios[i][j].label : j \in 1..Len(ReadScenarios[i]) } :
            i \in 1..Len(ReadScenarios) }

WriteLabels == { WritePaths[j].label : j \in 1..Len(WritePaths) }

\* The positions of the report at which the row of a scenario and hit stands.
RowsWith(l, h) == { k \in 1..Len(rows) : rows[k].label = l /\ rows[k].hit = h }

\* C18: the report of a successful run has exactly one row for every timed
\* scenario that was executed, each read scenario of each path in each read
\* repeat and each write path in each write repeat; all read rows precede
\* all write rows, and within both the rows are grouped by repeat index in
\* increasing order.
C18_ReportRows ==
  printed
    => LET nr == ReadsPerHit * REPEAT_READS
       IN /\ Len(rows) = nr + Len(WritePaths) * REPEAT_WRITES
          /\ \A l \in ReadLabels, h \in 1..REPEAT_READS : Cardinality(RowsWith(l, h)) = 1
          /\ \A l \in WriteLabels, h \in 1..REPEAT_WRITES : Cardinality(RowsWith(l, h)) = 1
          /\ \A k \in 1..nr :
               rows[k].label \in ReadLabels /\ rows[k].hit = ((k - 1) \div ReadsPerHit) + 1
          /\ \A k \in (nr + 1)..Len(rows) :
               /\ rows[k].label \in WriteLabels
               /\ rows[k].hit = ((k - nr - 1) \div Len(WritePaths)) + 1

\* A run with two read repeats and two write repeats has printed its report
\* and ended with status 0.
C18_Witness ==
  /\ printed
  /\ exitCode = 0
  /\ REPEAT_READS = 2
  /\ REPEAT_WRITES = 2
  /\ Len(rows) = 2 * ReadsPerHit + 2 * Len(WritePaths)

\* C19: no two rows of the final report carry the same label, every label
\* being a scenario and path label suffixed with a repeat index of its loop,
\* whatever the read-repeat and write-repeat counts.
C19_LabelsDistinct ==
  printed
    => /\ \A j, k \in 1..Len(rows) :
            j # k => <<rows[j].label, rows[j].hit>> # <<rows[k].label, rows[k].hit>>
       /\ \A k \in 1..Len(rows) :
            \/ rows[k].label \in ReadLabels /\ rows[k].hit \in 1..REPEAT_READS
            \/ rows[k].label \in WriteLabels /\ rows[k].hit \in 1..REPEAT_WRITES

\* The printed report has rows of one write path and of one read scenario
\* that differ in the repeat index only.
C19_Witness ==
  /\ printed
  /\ \E j, k \in 1..Len(rows) :
       /\ rows[j].label = rows[k].label
       /\ rows[j].label \in WriteLabels
       /\ rows[j].hit # rows[k].hit
  /\ \E j, k \in 1..Len(rows) :
       /\ rows[j].label = rows[k].label
       /\ rows[j].label \in ReadLabels
       /\ rows[j].hit # rows[k].hit

\* The results time() has returned to the read scenarios.
ReadResults == { r \in Range(rows) \cup Range(batch) : r.label \in ReadLabels }

\* The table the read scenario of each label queries.
TableOf ==
  [ l \in ReadLabels |->
      (CHOOSE q \in UNION { Range(ReadScenarios[i]) : i \in 1..Len(ReadScenarios) } :
         q.label = l).table ]

\* The rows of a table while the read loop runs: no write scenario has run.
RowsAtReads(table) ==
  CASE table = "posts" -> PostsRows
    [] table = "post_comments" -> PostCommentsRows
    [] table = "instructors" -> Cardinality(InitialStore.instructors)

C21_AbortBeforeAnyOperation ==
  env.unusable # {} => (batch = <<>> /\ rows = <<>>)

\* C22: the harness never retries.  Within a scenario execution every client
\* call is issued at most once, a failed call is never issued again, and its
\* failure aborts the run: the run never ends with status 0 after it.  (A
\* cleanupCreated call likewise issues each of its deletes at most once.)
C22_NeverRetries ==
  /\ callLog.again = {}
  /\ callLog.failed # {} => ScenarioFailed
  /\ exitCode = 0 => callLog.failed = {}
  /\ \A i \in 1..Len(cleanups) :
       \A j, k \in 1..Len(cleanups[i].order) :
         j # k => cleanups[i].order[j] # cleanups[i].order[k]

\* An insert of a write scenario failed, was not issued again, and the run
\* ended with that failure.
C22_Witness ==
  /\ exitCode = 1
  /\ err = "scenario"
  /\ callLog.failed = {<<"writes", 1, 1, "inst">>}
  /\ callLog.again = {}

\* The insert steps of the write scenarios.
InsertSteps == {"kw", "kw1", "kw2", "books", "b1", "b2", "inst", "ib", "ik"}

\* C23: write scenarios run one after another with pairwise distinct seeds
\* never meet a uniqueness violation, also while rows of earlier invocations
\* are still in the store because their cleanup has not run or has failed:
\* whenever an insert is in flight, the store accepts it.
C23_NoUniquenessViolation ==
  (pc = "writes" /\ InProgram /\ awaiting /\ Prog[step] \in InsertSteps)
    => InsertAllowed(Prog[step])

\* The last write scenario of the hit has its parent insert in flight while
\* keyword, book and parent rows of an earlier scenario are still in the
\* store.
C23_Witness ==
  /\ pc = "writes" /\ InProgram /\ awaiting
  /\ idx = Len(WritePaths)
  /\ Prog[step] = "inst"
  /\ \E s \in 1..(loc.suffix - 1) :
       /\ RowsBy(store, s).keywords # {}
       /\ RowsBy(store, s).books # {}
       /\ RowsBy(store, s).instructors # {}

\* C24: on every client path the instructor_keywords rows a write scenario
\* writes carry order 0 for its first keyword (bench_kw1) and order 1 for
\* its second (bench_kw2), in whatever order the store returned the keyword
\* rows.
C24_OrderFollowsInsertion ==
  \A r \in Visible.instructor_keywords :
    r.by # 0
      => \A k \in Visible.keywords :
           k.id = r.keyword_id => (k.by = r.by /\ r.order = k.name[1] - 1)

\* The number of rows in each table of t: keywords, books, instructors,
\* instructor_books, instructor_keywords.
Shape(t) ==
  << Cardinality(t.keywords), Cardinality(t.books), Cardinality(t.instructors),
     Cardinality(t.instructor_books), Cardinality(t.instructor_keywords) >>

FullGraph == <<2, 2, 1, 2, 2>>

\* The shapes of a graph under construction in the step order keywords,
\* books, parent, instructor_books, instructor_keywords.
GraphShapes ==
  { <<0, 0, 0, 0, 0>>, <<1, 0, 0, 0, 0>>, <<2, 0, 0, 0, 0>>, <<2, 1, 0, 0, 0>>,
    <<2, 2, 0, 0, 0>>, <<2, 2, 1, 0, 0>>, <<2, 2, 1, 2, 0>>, FullGraph }

\* Every join row of t references a parent, book or keyword row of t.
FkIntact(t) ==
  /\ \A r \in t.instructor_books :
       /\ \E p \in t.instructors : p.id = r.instructor_id
       /\ \E b \in t.books : b.id = r.book_id
  /\ \A r \in t.instructor_keywords :
       /\ \E p \in t.instructors : p.id = r.instructor_id
       /\ \E k \in t.keywords : k.id = r.keyword_id

\* The running write scenario is still inserting: it has neither failed nor
\* started its cleanup.
Inserting ==
  /\ Running /\ InProgram /\ ~loc.pending
  /\ \A i \in 1..Len(cleanups) : cleanups[i].owner # <<hit, idx>>

\* C25: a successful write scenario on any client path inserts exactly 2
\* keyword rows, 2 book rows, 1 parent row, 2 instructor_books rows and 2
\* instructor_keywords rows, in that step order, and in every intermediate
\* state every join row references rows that exist.
C25_GraphInStepOrder ==
  /\ FkIntact(store)
  /\ FkIntact(Visible)
  /\ Inserting
       => /\ Shape(RowsBy(Visible, loc.suffix)) \in GraphShapes
          /\ (\E i \in 1..(step - 1) : Prog[i] = "ik")
               => Shape(RowsBy(Visible, loc.suffix)) = FullGraph

\* The raw-SQL scenario has run its seven inserts and is about to commit:
\* its transaction holds the whole graph, built one row at a time.
C25_Witness ==
  /\ Inserting
  /\ Path.fn = "raw"
  /\ Prog[step] = "commit"
  /\ Shape(RowsBy(tx, loc.suffix)) = FullGraph

\* C26: the harness never deletes a row it did not insert.  On every client
\* path and whatever the outcome of the write scenarios, the rows that were
\* in the store before the run are all still there: what cleanupCreated
\* removes was inserted by a write scenario of the run.
C26_OnlyOwnRowsDeleted == RowsBy(store, 0) = InitialStore

\* The cleanup of a write scenario has removed the whole graph of the
\* scenario, and a scenario that failed has had its cleanup run as well.
C26_Witness ==
  /\ \E g \in created :
       /\ RowsBy(store, SeedOf(<<g.hit, g.idx>>)) = EmptyTables
       /\ \E i \in 1..Len(cleanups) :
            cleanups[i].owner = <<g.hit, g.idx>> /\ CleanupDone(cleanups[i])
  /\ \E i \in 1..Len(cleanups) :
       /\ cleanups[i].owner \notin { <<g.hit, g.idx>> : g \in created }
       /\ cleanups[i].order # <<>>

\* C27: read scenarios leave the store unchanged.  No step taken while
\* main() is in its read loop, on any client path and for any number of read
\* repeats, changes the rows of a table, the sequences or an open
\* transaction.
C27_ReadsLeaveStoreUnchanged ==
  [][pc = "reads" => store' = store /\ serial' = serial /\ tx' = tx]_vars

\* Two repeats of the three read scenarios have completed through all four
\* client paths, no write scenario has started, and the tables hold the rows
\* they held at the start.
C27_Witness ==
  /\ env.BENCH_REPEAT = 2
  /\ pc = "writes" /\ nextSeed = 1
  /\ Len(rows) = 2 * ReadsPerHit
  /\ store = InitialStore

\* The calls of transactional write scenarios (ORM query builder, ORM raw
\* SQL, Drizzle) that have failed.
FailedInTransaction ==
  { k \in callLog.failed : k[1] = "writes" /\ Transactional(WritePaths[k[3]].fn) }

\* The deletes cleanupCreated has issued for the write scenario a call
\* belongs to.
CleanupDeletes(k) ==
  UNION { cleanups[i].attempted :
            i \in { n \in 1..Len(cleanups) : cleanups[n].owner = <<k[2], k[3]>> } }

\* C28 as stated: when a transactional write scenario fails inside its
\* transaction, no delete of cleanupCreated is issued for it, and the failure
\* that ends the run is the failure of the scenario.
C28_AsStated ==
  \A k \in FailedInTransaction :
    /\ CleanupDeletes(k) = {}
    /\ ~Running => err = "scenario"

\* C28: when a transactional write scenario fails at a statement of its
\* transaction callback, no delete of cleanupCreated is issued for it (ids
\* still holds parent id 0); when the commit fails, the ORM query builder and
\* Drizzle paths issue none either, and only the finally block of the raw
\* SQL path, whose ids are captured by then, issues them.  In every case the
\* failure that ends the run is the failure of the scenario: the finally
\* block neither replaces nor swallows it.
C28_FailedTransactionSkipsCleanup ==
  \A k \in FailedInTransaction :
    /\ CleanupDeletes(k) # {} => (WritePaths[k[3]].fn = "raw" /\ k[4] = "commit")
    /\ ~Running => err = "scenario"

\* A statement inside the transaction of the raw SQL path has failed, the
\* finally block has issued no delete, and the run has ended with the
\* failure of the scenario.
C28_Witness ==
  /\ ~Running /\ err = "scenario"
  /\ \E k \in FailedInTransaction :
       /\ WritePaths[k[3]].fn = "raw" /\ k[4] # "commit"
       /\ CleanupDeletes(k) = {}

====
